---------------------------- MODULE Spec2Model ----------------------------
(***************************************************************************)
(* Model of the NASA fire data pipeline (src/src/main.py, fire_point.py,   *)
(* utils.py, settings.py, geopandas_demo.py).                              *)
(*                                                                         *)
(* The specifications share the variables:                                 *)
(*   Spec          main -> analysis_loop, input_dir with one archive       *)
(*   SpecRun       main with two archives (MODIS, then VIIRS)              *)
(*   SpecGroups    main with both filters, several clusters per call       *)
(*   SpecBatch     batch_main: main once per year                          *)
(*   SpecTime      FirePoint construction (convert_to_datetime)            *)
(*   SpecNeighbor  FirePoint.is_neighbor_of on pairs of points             *)
(*   SpecSlices    geopandas_demo.yield_top_point_slices                   *)
(*   SpecWarn      utils.ignore_pandas_warning around add_dates            *)
(*                                                                         *)
(* Python strings are sequences of one-character strings; a raised         *)
(* exception is the record [exc |-> <name>].                               *)
(***************************************************************************)
EXTENDS Integers, Sequences, FiniteSets, TLC

VARIABLES
    settings,   \* the SETTINGS dictionary main is called with
    raw,        \* the rows in the archives of input_dir, one sequence each
    cache,      \* lru_cache of load_dataset: the dict it returned, if any
    ds,         \* position of main's for loop in dataset.items()
    years,      \* the years batch_main has still to run
    chained_assignment,  \* pandas options.mode.chained_assignment
    df,         \* main's df: a sequence of [index, row], index the row label
    pc,         \* position in main / analysis_loop
    top,        \* top_df of yield_top_points
    k,          \* number of top points the for loop has taken
    gen,        \* where each conditional_open generator is suspended
    handle,     \* state of the file object each conditional_open opened
    opens,      \* number of open(path, 'w') calls per path
    logfile,    \* what the with statement bound to logfile
    csvfile,    \* what the with statement bound to csvfile
    fs,         \* the output directory tree
    exc,        \* the exception in flight, "none" when there is none
    clusters,   \* (index, group_id, top_point, close_points) per iteration
    stdout,     \* blocks printed by to_stdout
    fpIn,       \* input of the specifications of single functions
    fpOut       \* their result

vars == <<settings, raw, cache, ds, years, chained_assignment, df, pc, top, k,
          gen, handle, opens, logfile, csvfile, fs, exc, clusters, stdout,
          fpIn, fpOut>>

mainVars == <<settings, raw, cache, ds, years, chained_assignment, df, top, k,
              gen, handle, opens, logfile, csvfile, fs, exc, clusters, stdout>>

\* what analysis_loop leaves alone
outerVars == <<settings, raw, cache, ds, years, chained_assignment, fpIn, fpOut>>

(***************************************************************************)
(* Bounds of the model                                                     *)
(***************************************************************************)
MaxRows == 2
MaxLat == 1
MaxTopRows == 2
MaxDistanceCutoff == 2
MaxTemporalCutoff == 1
MaxTime == 2400
MaxNegTime == 130

(***************************************************************************)
(* Python helpers                                                          *)
(***************************************************************************)
Abs(x) == IF x < 0 THEN -x ELSE x

Min(a, b) == IF a < b THEN a ELSE b

Max(a, b) == IF a < b THEN b ELSE a

Exception(name) == [exc |-> name]

IsExc(v) == DOMAIN v = {"exc"}

DigitChars == <<"0", "1", "2", "3", "4", "5", "6", "7", "8", "9">>

IsDigit(c) == \E i \in 1..10 : DigitChars[i] = c

DigitValue(c) == (CHOOSE i \in 1..10 : DigitChars[i] = c) - 1

RECURSIVE NatStr(_)
NatStr(n) == IF n < 10 THEN <<DigitChars[n + 1]>>
             ELSE NatStr(n \div 10) \o <<DigitChars[(n % 10) + 1]>>

\* str(v) of an int: its decimal digits, with a leading "-" when negative
PyStr(v) == IF v < 0 THEN <<"-">> \o NatStr(-v) ELSE NatStr(v)

\* s[:stop]
PySliceTo(s, stop) ==
    LET n == Len(s)
        hi == IF stop < 0 THEN Max(n + stop, 0) ELSE Min(stop, n)
    IN SubSeq(s, 1, hi)

\* s[start:]
PySliceFrom(s, start) ==
    LET n == Len(s)
        lo == IF start < 0 THEN Max(n + start, 0) ELSE Min(start, n)
    IN SubSeq(s, lo + 1, n)

RECURSIVE DigitsValue(_)
DigitsValue(s) == IF Len(s) = 0 THEN 0
                  ELSE 10 * DigitsValue(SubSeq(s, 1, Len(s) - 1))
                       + DigitValue(s[Len(s)])

\* int(s): an optional sign followed by at least one digit, else ValueError
PyInt(s) ==
    LET neg == Len(s) > 0 /\ s[1] = "-"
        body == IF neg THEN Tail(s) ELSE s
    IN IF Len(body) = 0 \/ \E i \in 1..Len(body) : ~IsDigit(body[i])
       THEN Exception("ValueError")
       ELSE [val |-> IF neg THEN -DigitsValue(body) ELSE DigitsValue(body)]

(***************************************************************************)
(* datetime                                                                *)
(***************************************************************************)
IsLeap(y) == (y % 4 = 0) /\ ((y % 100 # 0) \/ (y % 400 = 0))

DaysInMonth(y, m) ==
    IF m = 2 THEN (IF IsLeap(y) THEN 29 ELSE 28)
    ELSE IF m \in {4, 6, 9, 11} THEN 30 ELSE 31

DaysBeforeYear(y) ==
    ((y - 1) * 365) + ((y - 1) \div 4) - ((y - 1) \div 100) + ((y - 1) \div 400)

RECURSIVE DaysBeforeMonth(_, _)
DaysBeforeMonth(y, m) ==
    IF m <= 1 THEN 0 ELSE DaysBeforeMonth(y, m - 1) + DaysInMonth(y, m - 1)

\* datetime(year, month, day, hour, minute): ValueError on a field out of range
datetime(year, month, day, hour, minute) ==
    IF /\ year \in 1..9999
       /\ month \in 1..12
       /\ day >= 1 /\ day <= DaysInMonth(year, month)
       /\ hour \in 0..23
       /\ minute \in 0..59
    THEN [year |-> year, month |-> month, day |-> day,
          hour |-> hour, minute |-> minute]
    ELSE Exception("ValueError")

toordinal(d) == DaysBeforeYear(d.year) + DaysBeforeMonth(d.year, d.month) + d.day

\* abs(a - b).total_seconds()
AbsTotalSeconds(a, b) ==
    Abs(((toordinal(a) - toordinal(b)) * 86400)
        + ((a.hour - b.hour) * 3600) + ((a.minute - b.minute) * 60))

(***************************************************************************)
(* FirePoint (src/src/fire_point.py)                                       *)
(***************************************************************************)
\* nominal pixel footprint in metres
pixel_size == [MODIS |-> 1000, VIIRS |-> 375]

\* variant: the hour part excludes one digit instead of two
hour_from_utc_integer_short(time) ==
    LET time_str == PyStr(time)
        r == PyInt(PySliceTo(time_str, Len(time_str) - 1))
    IN IF IsExc(r) THEN 0 ELSE r.val

hour_from_utc_integer(time) ==
    LET time_str == PyStr(time)
        r == PyInt(PySliceTo(time_str, Len(time_str) - 2))
    IN IF IsExc(r) THEN 0 ELSE r.val

\* day is the acq_date string split on '-' and read as three integers
convert_to_datetime(day, time) ==
    LET hour == hour_from_utc_integer(time)
        minute == PyInt(PySliceFrom(PyStr(time), -2))
    IN IF IsExc(minute) THEN minute
       ELSE datetime(day[1], day[2], day[3], hour, minute.val)

FirePoint(data) ==
    LET date == convert_to_datetime(data.acq_date, data.acq_time)
    IN IF IsExc(date) THEN date
       ELSE [data |-> data,
             date |-> date,
             point |-> [latitude |-> data.latitude, longitude |-> data.longitude],
             radius |-> pixel_size[data.instrument]]

\* geopy distance.distance(p, q).km on a grid of points spaced 1 km apart
Distance(p, q) == Abs(p.latitude - q.latitude) + Abs(p.longitude - q.longitude)

\* variant: a point at exactly the cutoff distance counts as close
is_spatially_close_to_inclusive(self, other, distance_delta) ==
    Distance(self.point, other.point) <= distance_delta

is_spatially_close_to(self, other, distance_delta) ==
    Distance(self.point, other.point) < distance_delta

is_temporally_close_to(self, other, time_delta) ==
    AbsTotalSeconds(self.date, other.date) < time_delta * 3600 * 24

\* variant: the temporal test left out
is_neighbor_of_spatial_only(self, other, time_delta, distance_delta) ==
    is_spatially_close_to(self, other, distance_delta)

is_neighbor_of(self, other, time_delta, distance_delta) ==
    /\ is_spatially_close_to(self, other, distance_delta)
    /\ is_temporally_close_to(self, other, time_delta)

(***************************************************************************)
(* SpecTime: FirePoint construction from one dataset row                   *)
(***************************************************************************)
\* acq_time values: every integer of the range
TimeInputs == (-MaxNegTime)..MaxTime

\* acq_date values, split on '-': two calendar days and two that are not
DateInputs == {<<2015, 12, 31>>, <<2016, 2, 29>>, <<2015, 2, 29>>, <<2015, 13, 1>>}

Row(date, time, lat, lon, frp, instrument) ==
    [acq_date |-> date, acq_time |-> time, latitude |-> lat, longitude |-> lon,
     frp |-> frp, instrument |-> instrument]

IdleMain ==
    /\ settings = <<>> /\ raw = <<>> /\ df = <<>> /\ top = <<>> /\ k = 0
    /\ cache = <<>> /\ ds = 0 /\ years = <<>> /\ chained_assignment = "warn"
    /\ gen = <<>> /\ handle = <<>> /\ opens = <<>> /\ fs = <<>>
    /\ logfile = "unbound" /\ csvfile = "unbound"
    /\ exc = "none" /\ clusters = <<>> /\ stdout = <<>>

InitTime ==
    /\ IdleMain
    /\ pc = "time_input"
    /\ fpIn \in {Row(d, t, 0, 0, 1, "MODIS") : d \in DateInputs, t \in TimeInputs}
    /\ fpOut = <<>>

\* FirePoint.from_dataset_row(row)
Construct ==
    /\ pc = "time_input"
    /\ fpOut' = FirePoint(fpIn)
    /\ pc' = IF IsExc(fpOut') THEN "time_raised" ELSE "time_constructed"
    /\ UNCHANGED <<mainVars, fpIn>>

NextTime == Construct

SpecTime == InitTime /\ [][NextTime]_vars

(***************************************************************************)
(* SpecNeighbor: is_neighbor_of on two constructed points                  *)
(***************************************************************************)
NeighborTimes == {0, 30, 2359}

NeighborDates == {<<2015, 12, 31>>, <<2016, 1, 1>>}

NeighborRows == {Row(d, t, lat, 0, 1, "VIIRS") :
                    d \in NeighborDates, t \in NeighborTimes, lat \in 0..MaxLat}

InitNeighbor ==
    /\ IdleMain
    /\ pc = "nb_input"
    /\ fpIn \in [a : NeighborRows, b : NeighborRows,
                 time_delta : 0..MaxTemporalCutoff,
                 distance_delta : 0..MaxDistanceCutoff]
    /\ fpOut = <<>>

\* a.is_neighbor_of(b, time_delta=..., distance_delta=...)
Compare ==
    /\ pc = "nb_input"
    /\ fpOut' = is_neighbor_of(FirePoint(fpIn.a), FirePoint(fpIn.b),
                               fpIn.time_delta, fpIn.distance_delta)
    /\ pc' = "nb_done"
    /\ UNCHANGED <<mainVars, fpIn>>

NextNeighbor == Compare

SpecNeighbor == InitNeighbor /\ [][NextNeighbor]_vars

(***************************************************************************)
(* Properties of FirePoint                                                 *)
(***************************************************************************)
ValidDate(d) == d[2] \in 1..12 /\ d[3] \in 1..DaysInMonth(d[1], d[2])

\* C7: for every UTC time integer t with 0 <= t <= 2359 and t % 100 < 60 (on
\* a valid calendar day) construction succeeds with hour = t \div 100 when
\* t >= 100, hour = 0 when t < 100, minute = t % 100, so that
\* hour * 100 + minute = t, one-digit values included.
C7_HourMinuteSplit ==
    (/\ pc \in {"time_constructed", "time_raised"}
     /\ fpIn.acq_time >= 0 /\ fpIn.acq_time <= 2359
     /\ fpIn.acq_time % 100 < 60
     /\ ValidDate(fpIn.acq_date))
    => (/\ pc = "time_constructed"
        /\ fpOut.date.hour = (IF fpIn.acq_time >= 100 THEN fpIn.acq_time \div 100 ELSE 0)
        /\ fpOut.date.minute = fpIn.acq_time % 100
        /\ (fpOut.date.hour * 100) + fpOut.date.minute = fpIn.acq_time)

C7_Witness ==
    /\ pc = "time_constructed"
    /\ fpIn.acq_time = 5
    /\ fpOut.date.hour = 0
    /\ fpOut.date.minute = 5

\* The part of str(acq_time) before its last two characters
HourPart(time) == PySliceTo(PyStr(time), Len(PyStr(time)) - 2)

ValidHourPart(time) ==
    Len(HourPart(time)) = 0
    \/ (~IsExc(PyInt(HourPart(time))) /\ PyInt(HourPart(time)).val \in 0..23)

\* C9: a FirePoint is never constructed from an acq_time whose leading (hour)
\* part is present but is not a valid hour number; such a row raises instead
\* of yielding hour 0.
C9_MalformedHourRejected ==
    pc = "time_constructed" => ValidHourPart(fpIn.acq_time)

\* Seconds since 2015-12-31 00:00 of a row of NeighborRows, from its raw fields
RawSeconds(row) ==
    ((IF row.acq_date = <<2016, 1, 1>> THEN 1 ELSE 0) * 86400)
    + ((row.acq_time \div 100) * 3600) + ((row.acq_time % 100) * 60)

\* C8: a.is_neighbor_of(b, time_delta, distance_delta) is true iff the
\* distance is strictly below distance_delta and the absolute time difference
\* in seconds is strictly below time_delta * 86400; so with a zero cutoff no
\* point is a neighbour of any point, itself included.
C8_NeighborIffBothStrict ==
    pc = "nb_done" =>
        /\ fpOut = (/\ Abs(fpIn.a.latitude - fpIn.b.latitude)
                       + Abs(fpIn.a.longitude - fpIn.b.longitude) < fpIn.distance_delta
                    /\ Abs(RawSeconds(fpIn.a) - RawSeconds(fpIn.b))
                       < fpIn.time_delta * 86400)
        /\ (fpIn.time_delta = 0 \/ fpIn.distance_delta = 0) => (fpOut = FALSE)

\* a and b exactly one day apart at the same place: not neighbours with a
\* cutoff of one day
C8_Witness ==
    /\ pc = "nb_done"
    /\ fpIn.a.acq_date = <<2015, 12, 31>> /\ fpIn.b.acq_date = <<2016, 1, 1>>
    /\ fpIn.a.acq_time = fpIn.b.acq_time
    /\ fpIn.a.latitude = fpIn.b.latitude
    /\ fpIn.time_delta = 1 /\ fpIn.distance_delta = 1
    /\ fpOut = FALSE

(***************************************************************************)
(* DataFrame operations of main.py.  A DataFrame is a sequence of          *)
(* [index |-> row label, row |-> record of the columns].                   *)
(***************************************************************************)
month_abbr == <<"Jan", "Feb", "Mar", "Apr", "May", "Jun",
                "Jul", "Aug", "Sep", "Oct", "Nov", "Dec">>

\* variant: pd.concat without ignore_index, on an archive of one-row csv
\* files: every row keeps the label it has in its own file
load_csvs_from_zip_file_keep_index(rows) ==
    [i \in 1..Len(rows) |-> [index |-> 0, row |-> rows[i]]]

\* pd.concat(data, ignore_index=True): row labels 0..n-1
load_csvs_from_zip_file(rows) ==
    [i \in 1..Len(rows) |-> [index |-> i - 1, row |-> rows[i]]]

\* add_year_values, add_month_values, add_month_names
add_dates(d) ==
    [i \in 1..Len(d) |->
        [index |-> d[i].index,
         row |-> d[i].row @@ [year |-> d[i].row.acq_date[1],
                              month |-> d[i].row.acq_date[2],
                              month_name |-> month_abbr[d[i].row.acq_date[2]]]]]

\* df.loc[mask]: the rows a boolean mask keeps, with their labels
RECURSIVE Loc(_, _)
Loc(d, mask) ==
    IF Len(d) = 0 THEN <<>>
    ELSE (IF Head(mask) THEN <<Head(d)>> ELSE <<>>) \o Loc(Tail(d), Tail(mask))

filter_dataset_by_equal_value(d, value_column, cutoff_value) ==
    Loc(d, [i \in 1..Len(d) |-> d[i].row[value_column] = cutoff_value])

filter_dataset_by_value_below(d, value_column, cutoff_value) ==
    Loc(d, [i \in 1..Len(d) |-> d[i].row[value_column] < cutoff_value])

filter_dataset_by_value_above(d, value_column, cutoff_value) ==
    Loc(d, [i \in 1..Len(d) |-> d[i].row[value_column] > cutoff_value])

\* the numerator of np.percentile(values, q) over 100 (linear interpolation
\* between the two closest ranks of the sorted values)
RECURSIVE SortedInts(_)
SortedInts(S) ==
    IF S = {} THEN <<>>
    ELSE LET i == CHOOSE x \in S : \A y \in S : x[1] < y[1] \/ (x[1] = y[1] /\ x[2] <= y[2])
         IN <<i[1]>> \o SortedInts(S \ {i})

percentile100(values, q) ==
    LET v == SortedInts({<<values[i], i>> : i \in 1..Len(values)})
        n == Len(v)
        lo == ((n - 1) * q) \div 100
        rem == ((n - 1) * q) % 100
    IN IF rem = 0 THEN 100 * v[lo + 1]
       ELSE (100 * v[lo + 1]) + (rem * (v[lo + 2] - v[lo + 1]))

\* lines 132-136; the percentile of an empty column, where numpy returns one,
\* is nan and no row compares greater
filter_dataset_by_percentile(d, percentile_column, cutoff_percentile) ==
    LET cutoff100 == percentile100([i \in 1..Len(d) |-> d[i].row[percentile_column]],
                                   cutoff_percentile)
    IN IF Len(d) = 0 THEN d
       ELSE Loc(d, [i \in 1..Len(d) |->
                       100 * d[i].row[percentile_column] > cutoff100])

filter_func(filter_type, d, value_column, cutoff_value) ==
    CASE filter_type = "equal" ->
            filter_dataset_by_equal_value(d, value_column, cutoff_value)
      [] filter_type = "below" ->
            filter_dataset_by_value_below(d, value_column, cutoff_value)
      [] filter_type = "above" ->
            filter_dataset_by_value_above(d, value_column, cutoff_value)

\* df.sort_values(by=column_name): ascending; the default sort kind is not
\* stable, so rows with equal values may come out in any order
sort_values(d, column_name) ==
    {[i \in 1..Len(d) |-> d[p[i]]] :
        p \in {q \in Permutations(1..Len(d)) :
                 \A i, j \in 1..Len(d) :
                    i < j => d[q[i]].row[column_name] <= d[q[j]].row[column_name]}}

\* variant: df.head(n) in place of df.tail(n)
tail_head(d, n) == IF n = 0 THEN <<>> ELSE PySliceTo(d, n)

\* df.tail(n)
tail(d, n) == IF n = 0 THEN <<>> ELSE PySliceFrom(d, -n)

\* top_df of yield_top_points: every outcome of the sort
top_dfs(d, column_name, n) == {tail(s, n) : s \in sort_values(d, column_name)}

(***************************************************************************)
(* Clustering and sinks of analysis_loop                                   *)
(***************************************************************************)
RECURSIVE FirstExc(_)
\* the exception raised while constructing the FirePoints of d in order
FirstExc(d) ==
    IF Len(d) = 0 THEN "none"
    ELSE IF IsExc(FirePoint(Head(d).row)) THEN FirePoint(Head(d).row).exc
    ELSE FirstExc(Tail(d))

RECURSIVE ClosePoints(_, _, _, _)
ClosePoints(d, top_point, distance_cutoff, temporal_cutoff) ==
    IF Len(d) = 0 THEN <<>>
    ELSE LET candidate == FirePoint(Head(d).row)
         IN (IF is_neighbor_of(top_point, candidate, temporal_cutoff, distance_cutoff)
             THEN <<candidate>> ELSE <<>>)
            \o ClosePoints(Tail(d), top_point, distance_cutoff, temporal_cutoff)

\* variant: the scan leaves the top point itself out
get_close_points_skip_self(d, top_point, distance_cutoff, temporal_cutoff) ==
    LET others == SelectSeq(d, LAMBDA r : FirePoint(r.row) # top_point)
    IN IF FirstExc(d) # "none" THEN Exception(FirstExc(d))
       ELSE [val |-> ClosePoints(others, top_point, distance_cutoff, temporal_cutoff)]

\* scans the whole of df; raises what a FirePoint constructor raises
get_close_points(d, top_point, distance_cutoff, temporal_cutoff) ==
    IF FirstExc(d) # "none" THEN Exception(FirstExc(d))
    ELSE [val |-> ClosePoints(d, top_point, distance_cutoff, temporal_cutoff)]

add_header ==
    <<"frp", "day", "time", "latitude", "longitude", "instrument",
      "is_top_point", "group_id">>

\* the keyword parameters FirePoint.as_csv_row declares besides self
as_csv_row_params == {"is_top_point"}

\* point.as_csv_row(**kwargs): TypeError on a keyword it does not declare
as_csv_row(self, kwargs) ==
    IF DOMAIN kwargs # as_csv_row_params THEN Exception("TypeError")
    ELSE [val |-> [frp |-> self.data.frp,
                   day |-> <<self.date.year, self.date.month, self.date.day>>,
                   time |-> <<self.date.hour, self.date.minute, 0>>,
                   latitude |-> self.data.latitude,
                   longitude |-> self.data.longitude,
                   instrument |-> self.data.instrument,
                   is_top_point |-> kwargs.is_top_point]]

\* the block to_stdout prints and to_log writes
Block(top_point, close_points, group_id) ==
    [top_point |-> top_point, group_id |-> group_id,
     count |-> Len(close_points), points |-> close_points]

\* to_csv: the lines written before it returns or raises
to_csv(file, top_point, close_points, group_id) ==
    IF file = "None" THEN [lines |-> <<>>, exc |-> "none"]
    ELSE LET first == as_csv_row(top_point,
                         [is_top_point |-> TRUE, group_id |-> group_id])
             rest == [i \in 1..Len(close_points) |->
                         as_csv_row(close_points[i],
                             [is_top_point |-> FALSE, group_id |-> group_id])]
         IN IF IsExc(first) THEN [lines |-> <<>>, exc |-> first.exc]
            ELSE IF \E i \in 1..Len(rest) : IsExc(rest[i])
            THEN LET bad == CHOOSE i \in 1..Len(rest) :
                               IsExc(rest[i]) /\ \A j \in 1..(i - 1) : ~IsExc(rest[j])
                 IN [lines |-> <<[kind |-> "row", fields |-> first.val]>>
                               \o [i \in 1..(bad - 1) |->
                                      [kind |-> "row", fields |-> rest[i].val]],
                     exc |-> rest[bad].exc]
            ELSE [lines |-> <<[kind |-> "row", fields |-> first.val]>>
                            \o [i \in 1..Len(rest) |->
                                   [kind |-> "row", fields |-> rest[i].val]],
                  exc |-> "none"]

(***************************************************************************)
(* Spec: main on one instrument dataset                                    *)
(***************************************************************************)
Frps == {1, 2}

\* the rows a csv file of the archive may hold: two detections per day at
\* latitude 0 on two consecutive days (of different years), one at latitude 1,
\* and one whose acq_time is no time of day
DatasetRows ==
    {Row(d, 30, 0, 0, frp, "MODIS") : d \in NeighborDates, frp \in Frps}
    \cup {Row(<<2015, 12, 31>>, 30, 1, 0, 2, "MODIS"),
          Row(<<2015, 12, 31>>, 2400, 0, 0, 2, "MODIS")}

DistanceCutoffs == {0, 1, 2}

TemporalCutoffs == {0, 1}

RowSeqs == UNION {[1..n -> DatasetRows] : n \in 0..MaxRows}

\* the keys of the filter_func dictionary of main
filter_types == {"equal", "below", "above"}

PercentileCutoffs == {0, 50, 90}

Settings ==
    [value_filter : BOOLEAN,
     filter_type : filter_types \cup {"between"},
     value_column : {"year"},
     cutoff_value : {2016},
     percentile_filter : BOOLEAN,
     percentile_column : {"frp"},
     cutoff_percentile : PercentileCutoffs,
     analyse_column : {"frp"},
     top_row_number : 0..MaxTopRows,
     distance_cutoff : DistanceCutoffs,
     temporal_cutoff : TemporalCutoffs,
     analyse_to_stdout : BOOLEAN,
     analyse_to_log : BOOLEAN,
     log_name : {"None"},
     analyse_to_csv : BOOLEAN,
     csv_name : {"None"}]

NoFile == [exists |-> FALSE, lines |-> <<>>]

EmptyFile == [exists |-> TRUE, lines |-> <<>>]

\* the state before main runs, for the given sets of settings and archives
InitMain(configs, archives, start, todo) ==
    /\ settings \in configs
    /\ raw \in archives
    /\ cache = [hit |-> FALSE, dataset |-> <<>>]
    /\ ds = 0
    /\ years = todo
    /\ chained_assignment = "warn"
    /\ df = <<>>
    /\ pc = start
    /\ top = <<>>
    /\ k = 0
    /\ gen = [log |-> "unstarted", csv |-> "unstarted"]
    /\ handle = [log |-> "none", csv |-> "none"]
    /\ opens = [log |-> 0, csv |-> 0]
    /\ logfile = "unbound"
    /\ csvfile = "unbound"
    /\ fs = [output_dir |-> FALSE, batch_results |-> FALSE,
             log |-> NoFile, csv |-> NoFile]
    /\ exc = "none"
    /\ clusters = <<>>
    /\ stdout = <<>>
    /\ fpIn = <<>>
    /\ fpOut = <<>>

\* one archive in input_dir; the percentile filter off; a filter_type that is
\* not used (value_filter off) is the default or no key of filter_func
Init ==
    InitMain({c \in Settings :
                 /\ ~c.percentile_filter /\ c.cutoff_percentile = 90
                 /\ ~c.value_filter => c.filter_type \in {"equal", "between"}},
             {<<rows>> : rows \in RowSeqs}, "main_start", <<>>)

\* variant: filter_type is looked up only when the value filter is enabled
MainResolveLazy ==
    /\ pc = "main_start"
    /\ IF settings.value_filter => settings.filter_type \in filter_types
       THEN pc' = "main_load" /\ exc' = exc
       ELSE pc' = "main_raised" /\ exc' = "KeyError"
    /\ UNCHANGED <<settings, raw, cache, ds, years, chained_assignment, df, top,
                   k, gen, handle, opens, logfile, csvfile, fs, clusters, stdout,
                   fpIn, fpOut>>

\* main, lines 29-33: filter_func = {...}[filter_type]
MainResolve ==
    /\ pc = "main_start"
    /\ IF settings.filter_type \in filter_types
       THEN pc' = "main_load" /\ exc' = exc
       ELSE pc' = "main_raised" /\ exc' = "KeyError"
    /\ UNCHANGED <<settings, raw, cache, ds, years, chained_assignment, df, top,
                   k, gen, handle, opens, logfile, csvfile, fs, clusters, stdout,
                   fpIn, fpOut>>

\* load_dataset(input_dir), lines 67-76, under lru_cache: a later call with
\* the same input_dir returns the dict of the first; reading an archive may
\* fail
MainLoadDataset ==
    /\ pc = "main_load"
    /\ \/ /\ cache.hit
          /\ pc' = "main_mkdir"
          /\ UNCHANGED <<cache, exc>>
       \/ /\ ~cache.hit
          /\ cache' = [hit |-> TRUE,
                       dataset |-> [i \in 1..Len(raw) |->
                                       load_csvs_from_zip_file(raw[i])]]
          /\ pc' = "main_mkdir"
          /\ exc' = exc
       \/ /\ ~cache.hit
          /\ pc' = "main_raised"
          /\ exc' = "OSError"
          /\ cache' = cache
    /\ UNCHANGED <<settings, raw, ds, years, chained_assignment, df, top, k, gen,
                   handle, opens, logfile, csvfile, fs, clusters, stdout,
                   fpIn, fpOut>>

\* variant: output_dir is not created
MainMkdirSkipped ==
    /\ pc = "main_mkdir"
    /\ ds' = 1
    /\ pc' = IF Len(cache.dataset) = 0 THEN "main_done" ELSE "main_dataset"
    /\ UNCHANGED <<settings, raw, cache, years, chained_assignment, df, top, k,
                   gen, handle, opens, logfile, csvfile, fs, exc, clusters,
                   stdout, fpIn, fpOut>>

\* main, lines 37-40: make output_dir if it is missing, start the for loop
MainMkdir ==
    /\ pc = "main_mkdir"
    /\ fs' = [fs EXCEPT !.output_dir = TRUE]
    /\ ds' = 1
    /\ pc' = IF Len(cache.dataset) = 0 THEN "main_done" ELSE "main_dataset"
    /\ UNCHANGED <<settings, raw, cache, years, chained_assignment, df, top, k,
                   gen, handle, opens, logfile, csvfile, exc, clusters, stdout,
                   fpIn, fpOut>>

\* main, lines 43-45: the value filter, if enabled
value_filtered(d, c) ==
    IF c.value_filter
    THEN filter_func(c.filter_type, d, c.value_column, c.cutoff_value)
    ELSE d

\* variant: the percentile filter runs first, the value filter second
apply_filters_percentile_first(d, c) ==
    LET cut == IF c.percentile_filter
               THEN filter_dataset_by_percentile(d, c.percentile_column,
                                                 c.cutoff_percentile)
               ELSE d
    IN value_filtered(cut, c)

\* main, lines 43-49: the value filter, then the percentile filter
apply_filters(d, c) ==
    IF c.percentile_filter
    THEN filter_dataset_by_percentile(value_filtered(d, c), c.percentile_column,
                                      c.cutoff_percentile)
    ELSE value_filtered(d, c)

\* main, lines 41-50: add the date columns to the DataFrame of the dict (in
\* place), filter it; np.percentile of an empty column is nan or, on other
\* numpy versions, an IndexError
MainPrepare ==
    /\ pc = "main_dataset"
    /\ cache' = [cache EXCEPT !.dataset[ds] = add_dates(@)]
    /\ chained_assignment' = "warn"
    /\ \/ /\ df' = apply_filters(cache'.dataset[ds], settings)
          /\ pc' = IF \/ settings.analyse_to_stdout
                      \/ settings.analyse_to_log
                      \/ settings.analyse_to_csv
                   THEN "analysis_enter" ELSE "analysis_skipped"
          /\ exc' = exc
       \/ /\ settings.percentile_filter
          /\ Len(value_filtered(cache'.dataset[ds], settings)) = 0
          /\ df' = value_filtered(cache'.dataset[ds], settings)
          /\ pc' = "main_raised"
          /\ exc' = "IndexError"
    /\ UNCHANGED <<settings, raw, ds, years, top, k, gen, handle, opens, logfile,
                   csvfile, fs, clusters, stdout, fpIn, fpOut>>

\* main, lines 40 and 56-64: the next item of dataset.items(), or the end
MainNextDataset ==
    /\ pc \in {"analysis_done", "analysis_skipped"}
    /\ ds' = ds + 1
    /\ pc' = IF ds < Len(cache.dataset) THEN "main_dataset" ELSE "main_done"
    /\ UNCHANGED <<settings, raw, cache, years, chained_assignment, df, top, k,
                   gen, handle, opens, logfile, csvfile, fs, exc, clusters,
                   stdout, fpIn, fpOut>>

\* variant: the file is opened for appending whatever the mode
open_append(file, mode) == [exists |-> TRUE, lines |-> file.lines]

\* open(filename, mode) on the file now at filename: 'w' creates or truncates
open(file, mode) ==
    IF mode = "w" THEN EmptyFile ELSE [exists |-> TRUE, lines |-> file.lines]

\* conditional_open(...).__enter__(): the generator runs to its first yield
conditional_open_enter(condition) ==
    IF ~condition
    THEN [gen |-> "yield_none", as |-> "None", handle |-> "none", opens |-> 0]
    ELSE [gen |-> "yield_resource", as |-> "file", handle |-> "open", opens |-> 1]

\* analysis_loop, lines 144-157: make batch_results, enter both context
\* managers, write the header, start yield_top_points
AnalysisEnter ==
    /\ pc = "analysis_enter"
    /\ LET l == conditional_open_enter(settings.analyse_to_log)
           c == conditional_open_enter(settings.analyse_to_csv)
       IN /\ gen' = [log |-> l.gen, csv |-> c.gen]
          /\ handle' = [log |-> l.handle, csv |-> c.handle]
          /\ opens' = [log |-> opens.log + l.opens, csv |-> opens.csv + c.opens]
          /\ logfile' = l.as
          /\ csvfile' = c.as
          /\ fs' = [fs EXCEPT
                      !.batch_results = TRUE,
                      !.log = IF l.opens = 1 THEN open(@, "w") ELSE @,
                      !.csv = IF c.opens = 0 THEN @
                              ELSE [open(@, "w") EXCEPT
                                       !.lines = Append(@, [kind |-> "header",
                                                            fields |-> add_header])]]
    /\ top' \in top_dfs(df, settings.analyse_column, settings.top_row_number)
    /\ k' = 0
    /\ clusters' = <<>>
    /\ pc' = IF Len(top') = 0 THEN "exit_csv" ELSE "loop"
    /\ UNCHANGED <<outerVars, df, exc, stdout>>

\* analysis_loop, lines 157-166: one iteration of the for loop
LoopIter ==
    /\ pc = "loop"
    /\ k < Len(top)
    /\ k' = k + 1
    /\ LET index == top[k + 1].index
           top_point == FirePoint(top[k + 1].row)
           group_id == index + 1
           found == get_close_points(df, top_point, settings.distance_cutoff,
                                     settings.temporal_cutoff)
       IN IF IsExc(top_point) \/ IsExc(found)
          THEN /\ exc' = IF IsExc(top_point) THEN top_point.exc ELSE found.exc
               /\ pc' = "exit_csv"
               /\ UNCHANGED <<fs, clusters, stdout>>
          ELSE LET close_points == found.val
                   block == Block(top_point, close_points, group_id)
                   written == to_csv(csvfile, top_point, close_points, group_id)
               IN /\ stdout' = IF settings.analyse_to_stdout
                               THEN Append(stdout, block) ELSE stdout
                  /\ fs' = [fs EXCEPT
                              !.log.lines = IF logfile = "None" THEN @
                                            ELSE Append(@, block),
                              !.csv.lines = @ \o written.lines]
                  /\ clusters' = Append(clusters,
                                    [index |-> index, group_id |-> group_id,
                                     top_point |-> top_point,
                                     close_points |-> close_points])
                  /\ exc' = written.exc
                  /\ pc' = IF written.exc # "none" \/ k + 1 = Len(top)
                           THEN "exit_csv" ELSE "loop"
    /\ UNCHANGED <<outerVars, df, top, gen, handle, opens, logfile, csvfile>>

\* _GeneratorContextManager.__exit__ on the generator of conditional_open.
\* Suspended at `yield resource` the generator closes the file and ends.
\* Suspended at `yield None` with an exception in flight, the exception is
\* thrown at the yield and leaves the generator.  Suspended at `yield None`
\* without one, the generator goes on to open(filename, mode) and yields a
\* second time: __exit__ raises RuntimeError, and whether the generator is
\* then closed (which closes the file) depends on the interpreter version.
conditional_open_exit(p) ==
    CASE gen[p] = "yield_resource" ->
            /\ gen' = [gen EXCEPT ![p] = "finished"]
            /\ handle' = [handle EXCEPT ![p] = "closed"]
            /\ UNCHANGED <<opens, fs, exc>>
      [] gen[p] = "yield_none" /\ exc # "none" ->
            /\ gen' = [gen EXCEPT ![p] = "finished"]
            /\ UNCHANGED <<handle, opens, fs, exc>>
      [] gen[p] = "yield_none" /\ exc = "none" ->
            /\ opens' = [opens EXCEPT ![p] = @ + 1]
            /\ fs' = [fs EXCEPT ![p] = open(@, "w")]
            /\ exc' = "RuntimeError"
            /\ \/ /\ gen' = [gen EXCEPT ![p] = "second_yield"]
                  /\ handle' = [handle EXCEPT ![p] = "open"]
               \/ /\ gen' = [gen EXCEPT ![p] = "finished"]
                  /\ handle' = [handle EXCEPT ![p] = "closed"]

\* leaving the with statement: the csv context manager exits first
ExitCsv ==
    /\ pc = "exit_csv"
    /\ conditional_open_exit("csv")
    /\ pc' = "exit_log"
    /\ UNCHANGED <<outerVars, df, top, k, logfile, csvfile, clusters, stdout>>

ExitLog ==
    /\ pc = "exit_log"
    /\ conditional_open_exit("log")
    /\ pc' = IF exc' = "none" THEN "analysis_done" ELSE "raised"
    /\ UNCHANGED <<outerVars, df, top, k, logfile, csvfile, clusters, stdout>>

Next ==
    \/ MainResolve
    \/ MainLoadDataset
    \/ MainMkdir
    \/ MainPrepare
    \/ MainNextDataset
    \/ AnalysisEnter
    \/ LoopIter
    \/ ExitCsv
    \/ ExitLog

Spec == Init /\ [][Next]_vars

(***************************************************************************)
(* Properties of analysis_loop                                             *)
(***************************************************************************)
InAnalysis == pc \in {"loop", "exit_csv", "exit_log", "analysis_done", "raised"}

Exited == pc \in {"analysis_done", "raised"}

\* C1: the group id of the k-th top point processed is k.
C1_SequentialGroupIds ==
    \A i \in 1..Len(clusters) : clusters[i].group_id = i

RECURSIVE ClusterRowCount(_)
ClusterRowCount(cs) ==
    IF Len(cs) = 0 THEN 0
    ELSE 1 + Len(Head(cs).close_points) + ClusterRowCount(Tail(cs))

\* C2: with the csv sink enabled every processed cluster is in the file as
\* one row for the top point followed by one row per neighbour, each row
\* carrying the group id, and writing a cluster raises nothing.
C2_CsvClusterRows ==
    (InAnalysis /\ csvfile = "file") =>
        /\ exc # "TypeError"
        /\ Len(fs.csv.lines) = 1 + ClusterRowCount(clusters)
        /\ \A i \in 2..Len(fs.csv.lines) :
              "group_id" \in DOMAIN fs.csv.lines[i].fields

\* is_neighbor_of, restated on the raw columns of two rows of DatasetRows
RawNeighbors(a, b) ==
    /\ Abs(a.latitude - b.latitude) + Abs(a.longitude - b.longitude)
          < settings.distance_cutoff
    /\ Abs(RawSeconds(a) - RawSeconds(b)) < settings.temporal_cutoff * 86400

\* C3: the neighbour list of every top point is exactly the rows of the
\* whole filtered dataset that are neighbours of the top point, in dataset
\* order, other top points and the top point itself included; so with both
\* cutoffs positive the top point is in its own list.
C3_ClosePointsAreAllNeighbors ==
    \A i \in 1..Len(clusters) :
        LET c == clusters[i]
            expected == SelectSeq(df, LAMBDA r : RawNeighbors(c.top_point.data, r.row))
        IN /\ Len(c.close_points) = Len(expected)
           /\ \A j \in 1..Len(expected) : c.close_points[j].data = expected[j].row
           /\ (settings.distance_cutoff > 0 /\ settings.temporal_cutoff > 0)
                 => \E j \in 1..Len(c.close_points) : c.close_points[j] = c.top_point

\* a cluster of the second top point that holds itself and the first top point
C3_Witness ==
    /\ Len(clusters) = 2
    /\ Len(df) = 2
    /\ Len(clusters[2].close_points) = 2
    /\ \E j \in 1..2 : clusters[2].close_points[j] = clusters[1].top_point
    /\ \E j \in 1..2 : clusters[2].close_points[j] = clusters[2].top_point
    /\ clusters[1].top_point # clusters[2].top_point

TopIndices == {top[i].index : i \in 1..Len(top)}

\* C4: for N >= 0 yield_top_points yields min(N, |df|) rows, every yielded
\* value is >= every value not yielded, and they come in ascending order of
\* the ranking column (the maximum last); the loop processes them in that
\* order.
C4_TopPointsAscending ==
    InAnalysis =>
        /\ Len(top) = Min(settings.top_row_number, Len(df))
        /\ Cardinality(TopIndices) = Len(top)
        /\ \A i \in 1..Len(top) : \E j \in 1..Len(df) : df[j] = top[i]
        /\ \A i \in 1..Len(top) : \A j \in 1..Len(df) :
              df[j].index \notin TopIndices => df[j].row.frp <= top[i].row.frp
        /\ \A i, j \in 1..Len(top) : i < j => top[i].row.frp <= top[j].row.frp
        /\ \A j \in 1..Len(df) :
              Len(top) > 0 => df[j].row.frp <= top[Len(top)].row.frp
        /\ \A i \in 1..Len(clusters) : clusters[i].index = top[i].index

\* one top point out of two rows: the higher one, although it comes first
C4_Witness ==
    /\ pc = "exit_csv"
    /\ settings.top_row_number = 1
    /\ Len(df) = 2
    /\ df[1].row.frp > df[2].row.frp
    /\ Len(clusters) = 1
    /\ clusters[1].index = df[1].index

\* C5: a sink whose flag is false receives None and its file is never
\* opened, created or truncated; a sink whose flag is true receives an open
\* file; leaving the with statement raises nothing.
C5_SinksIndependentlyOptional ==
    InAnalysis =>
        /\ ~settings.analyse_to_log =>
              (logfile = "None" /\ opens.log = 0 /\ ~fs.log.exists)
        /\ ~settings.analyse_to_csv =>
              (csvfile = "None" /\ opens.csv = 0 /\ ~fs.csv.exists)
        /\ settings.analyse_to_log => logfile = "file"
        /\ settings.analyse_to_csv => csvfile = "file"
        /\ exc # "RuntimeError"

\* C6: every file analysis_loop opens through conditional_open is opened at
\* most once and is closed when analysis_loop has exited, normally or not.
C6_HandlesClosedOnExit ==
    Exited => \A p \in {"log", "csv"} : opens[p] <= 1 /\ handle[p] # "open"

\* the columns geopandas_demo and get_geodataframe look up in the csv file
geopandas_demo_columns ==
    {"date", "time", "latitude", "longitude", "frp", "is_top_point"}

\* C10: with the csv sink enabled the first line of the file is the header
\* frp,date,time,latitude,longitude,instrument,is_top_point,group_id, no other
\* line is a header, and the header has every column geopandas_demo reads.
C10_HeaderMatchesConsumer ==
    (InAnalysis /\ csvfile = "file") =>
        /\ Len(fs.csv.lines) >= 1
        /\ fs.csv.lines[1].kind = "header"
        /\ \A i \in 2..Len(fs.csv.lines) : fs.csv.lines[i].kind = "row"
        /\ fs.csv.lines[1].fields =
              <<"frp", "date", "time", "latitude", "longitude", "instrument",
                "is_top_point", "group_id">>
        /\ geopandas_demo_columns \subseteq
              {fs.csv.lines[1].fields[i] : i \in 1..Len(fs.csv.lines[1].fields)}

(***************************************************************************)
(* SpecBatch: batch_main                                                   *)
(***************************************************************************)

\* settings.py, lines 2-28
SETTINGS ==
    [value_filter |-> TRUE,
     filter_type |-> "equal",
     value_column |-> "year",
     cutoff_value |-> 2015,
     percentile_filter |-> FALSE,
     percentile_column |-> "frp",
     cutoff_percentile |-> 90,
     analyse_column |-> "frp",
     top_row_number |-> 100,
     distance_cutoff |-> 10,
     temporal_cutoff |-> 30,
     analyse_to_stdout |-> TRUE,
     analyse_to_log |-> TRUE,
     log_name |-> "None",
     analyse_to_csv |-> TRUE,
     csv_name |-> "None"]

\* the tuple batch_main iterates
BatchYears == <<2015, 2016, 2017, 2018, 2019>>

InitBatch ==
    InitMain({SETTINGS}, {<<rows>> : rows \in RowSeqs}, "batch_loop", BatchYears)

\* batch_main, lines 5-11: one iteration sets three entries of SETTINGS and
\* calls main; log_name and csv_name name files no earlier call has written
BatchCall ==
    /\ pc \in {"batch_loop", "main_done"}
    /\ years # <<>>
    /\ settings' = [settings EXCEPT
                       !.cutoff_value = Head(years),
                       !.log_name = NatStr(Head(years)) \o <<"_log.txt">>,
                       !.csv_name = NatStr(Head(years)) \o <<"_firepoints.csv">>]
    /\ years' = Tail(years)
    /\ fs' = [fs EXCEPT !.log = NoFile, !.csv = NoFile]
    /\ opens' = [log |-> 0, csv |-> 0]
    /\ pc' = "main_start"
    /\ UNCHANGED <<raw, cache, ds, chained_assignment, df, top, k, gen, handle,
                   logfile, csvfile, exc, clusters, stdout, fpIn, fpOut>>

\* batch_main: the tuple is exhausted
BatchDone ==
    /\ pc = "main_done"
    /\ years = <<>>
    /\ pc' = "batch_done"
    /\ UNCHANGED <<mainVars, fpIn, fpOut>>

NextBatch ==
    \/ BatchCall
    \/ BatchDone
    \/ Next

SpecBatch == InitBatch /\ [][NextBatch]_vars

\* C11: every call of main that batch_main makes starts from the freshly
\* loaded input: the DataFrame its for loop reaches is the one
\* load_csvs_from_zip_file builds from the archive, with no column added by
\* an earlier call
C11_IterationStartsFromFreshInput ==
    pc = "main_dataset" =>
        cache.dataset[ds] = load_csvs_from_zip_file(raw[ds])

(***************************************************************************)
(* SpecGroups: main with the value and percentile filters, stdout sink     *)
(***************************************************************************)

MaxGroupRows == 3

GroupFrps == {1, 2, 3}

\* rows at one place and time of day, so that the filters alone decide: one of
\* 2015 and three of 2016
GroupRows ==
    {Row(<<2015, 12, 31>>, 30, 0, 0, 1, "MODIS")}
        \cup {Row(<<2016, 1, 1>>, 30, 0, 0, f, "MODIS") : f \in GroupFrps}

GroupRowSeqs == UNION {[1..n -> GroupRows] : n \in 0..MaxGroupRows}

InitGroups ==
    InitMain({c \in Settings :
                 /\ c.filter_type \in filter_types
                 /\ ~c.value_filter => c.filter_type = "equal"
                 /\ ~c.percentile_filter => c.cutoff_percentile = 90
                 /\ ~c.analyse_to_log /\ ~c.analyse_to_csv
                 /\ c.distance_cutoff = 1 /\ c.temporal_cutoff = 1},
             {<<rows>> : rows \in GroupRowSeqs}, "main_start", <<>>)

SpecGroups == InitGroups /\ [][Next]_vars

\* main has assigned the filtered df of the current dataset
Prepared ==
    pc \in {"analysis_enter", "analysis_skipped", "loop", "exit_csv", "exit_log",
            "analysis_done", "raised"}

\* the value filter restated on the acq_date column of the loaded rows
ValueKeeps(row, c) ==
    CASE c.filter_type = "equal" -> row.acq_date[1] = c.cutoff_value
      [] c.filter_type = "below" -> row.acq_date[1] < c.cutoff_value
      [] c.filter_type = "above" -> row.acq_date[1] > c.cutoff_value

\* the positions of the loaded rows the value filter keeps
ValueSurvivors == {i \in 1..Len(raw[ds]) : ValueKeeps(raw[ds][i], settings)}

RECURSIVE FrpsOf(_, _)
FrpsOf(rows, S) ==
    IF S = {} THEN <<>>
    ELSE LET i == CHOOSE x \in S : \A y \in S : x <= y
         IN <<rows[i].frp>> \o FrpsOf(rows, S \ {i})

\* C12: with both filters enabled the percentile cutoff is the percentile of
\* the frp values of the rows that passed the value filter, and df holds
\* exactly the rows that passed the value filter and whose frp is strictly
\* greater than that cutoff, in ingestion order
C12_ValueThenStrictPercentile ==
    (Prepared /\ settings.value_filter /\ settings.percentile_filter
        /\ ValueSurvivors # {}) =>
        LET cutoff100 == percentile100(FrpsOf(raw[ds], ValueSurvivors),
                                       settings.cutoff_percentile)
        IN /\ {df[j].index + 1 : j \in 1..Len(df)} =
                 {i \in ValueSurvivors : 100 * raw[ds][i].frp > cutoff100}
           /\ \A j \in 1..(Len(df) - 1) : df[j].index < df[j + 1].index

\* a row that passed the value filter and equals the cutoff is dropped, and
\* a row outside the value filter would have moved the cutoff
C12_Witness ==
    /\ Prepared /\ settings.value_filter /\ settings.percentile_filter
    /\ Len(df) >= 1
    /\ \E i \in ValueSurvivors :
          100 * raw[ds][i].frp =
              percentile100(FrpsOf(raw[ds], ValueSurvivors),
                            settings.cutoff_percentile)
    /\ percentile100(FrpsOf(raw[ds], ValueSurvivors), settings.cutoff_percentile)
          # percentile100(FrpsOf(raw[ds], 1..Len(raw[ds])),
                          settings.cutoff_percentile)

(***************************************************************************)
(* Properties of main's start (Spec)                                       *)
(***************************************************************************)

\* something has been written below output_dir
OutputWritten == fs.batch_results \/ fs.log.exists \/ fs.csv.exists

\* C13, as stated: output_dir exists before the input archives are loaded,
\* so it exists once they are loaded and also when loading them failed
C13_OutputDirBeforeLoad ==
    (cache.hit \/ exc = "OSError") => fs.output_dir

\* C13, amended: output_dir is created after the input archives are loaded
\* and before the for loop over the datasets, hence before anything is
\* written below it; a run that fails before or while loading leaves a
\* missing output_dir missing
C13_OutputDirAfterLoadBeforeOutput ==
    /\ OutputWritten => fs.output_dir
    /\ (pc = "main_dataset" \/ pc = "main_done" \/ Prepared) => fs.output_dir
    /\ (pc = "main_raised" /\ exc \in {"KeyError", "OSError"}) => ~fs.output_dir
    /\ pc \in {"main_start", "main_load", "main_mkdir"} => ~fs.output_dir

C13_Witness ==
    /\ OutputWritten
    /\ fs.output_dir
    /\ fs.csv.exists

\* C19: a filter_type that is no key of filter_func ends main with KeyError
\* at its first statement, whether or not the value filter is enabled:
\* nothing has been loaded, no directory made, nothing written or printed
C19_UnknownFilterTypeFailsFirst ==
    (settings.filter_type \notin filter_types /\ pc # "main_start") =>
        /\ pc = "main_raised"
        /\ exc = "KeyError"
        /\ ~cache.hit
        /\ ~fs.output_dir
        /\ ~OutputWritten
        /\ stdout = <<>>
        /\ df = <<>>

C19_Witness ==
    /\ pc = "main_raised"
    /\ exc = "KeyError"
    /\ ~settings.value_filter
    /\ settings.filter_type = "between"
    /\ ~cache.hit

(***************************************************************************)
(* Further properties of analysis_loop (Spec)                              *)
(***************************************************************************)

\* C14: with distance cutoff 0 no point is spatially close to a top point,
\* the top point itself included: every cluster has an empty neighbour list,
\* and every block printed or logged reports the top point and 0 points
C14_ZeroDistanceNoNeighbours ==
    settings.distance_cutoff = 0 =>
        /\ \A i \in 1..Len(clusters) : clusters[i].close_points = <<>>
        /\ \A i \in 1..Len(stdout) :
              stdout[i].count = 0 /\ stdout[i].points = <<>>
        /\ \A i \in 1..Len(fs.log.lines) :
              fs.log.lines[i].count = 0 /\ fs.log.lines[i].points = <<>>

\* a cluster found with cutoff 0 in a df that holds a second row at the very
\* place and time of the top point, printed and logged
C14_Witness ==
    /\ settings.distance_cutoff = 0
    /\ settings.temporal_cutoff = 1
    /\ Len(df) = 2
    /\ df[1].row = df[2].row
    /\ Len(clusters) >= 1
    /\ Len(stdout) >= 1
    /\ Len(fs.log.lines) >= 1

\* C15: the top-N selection is a stable sort: top points of equal value are
\* processed in ingestion order, and of the rows that tie at the top-N
\* boundary the selected ones are the later ones in ingestion order
C15_StableTopSelection ==
    InAnalysis =>
        /\ \A i \in 1..(Len(top) - 1) :
              top[i].row[settings.analyse_column]
                    = top[i + 1].row[settings.analyse_column]
                 => top[i].index < top[i + 1].index
        /\ \A i \in 1..Len(top) : \A j \in 1..Len(df) :
              (/\ df[j].index \notin TopIndices
               /\ df[j].row[settings.analyse_column]
                     = top[i].row[settings.analyse_column])
                 => df[j].index < top[i].index

(***************************************************************************)
(* SpecSlices: geopandas_demo.yield_top_point_slices                       *)
(***************************************************************************)

MaxSliceRows == 5

\* the is_top_point column of the firepoints table, row labels 0..n-1
SliceTables == UNION {[1..n -> BOOLEAN] : n \in 0..MaxSliceRows}

InitSlices ==
    /\ IdleMain
    /\ pc = "slices_loop"
    /\ fpIn \in SliceTables
    /\ fpOut = [index |-> 0, start |-> 0, slices |-> <<>>]

\* one iteration of `for index, row in data.iterrows()`; a slice
\* data.iloc[start:stop, :] is recorded by its two ends
SliceRow ==
    /\ pc = "slices_loop"
    /\ fpOut.index < Len(fpIn)
    /\ LET index == fpOut.index
           is_top_point == fpIn[index + 1]
       IN fpOut' = IF index # 0 /\ is_top_point
                   THEN [index |-> index + 1,
                         start |-> index,
                         slices |-> Append(fpOut.slices,
                                      [start |-> fpOut.start, stop |-> index])]
                   ELSE [fpOut EXCEPT !.index = index + 1]
    /\ pc' = pc
    /\ UNCHANGED <<mainVars, fpIn>>

\* the rows are exhausted: the generator returns
SliceStop ==
    /\ pc = "slices_loop"
    /\ fpOut.index = Len(fpIn)
    /\ pc' = "slices_done"
    /\ UNCHANGED <<mainVars, fpIn, fpOut>>

NextSlices ==
    \/ SliceRow
    \/ SliceStop

SpecSlices == InitSlices /\ [][NextSlices]_vars

\* the top-point rows of positions start..stop-1 of the table
TopPointsIn(slice) == {i \in slice.start..(slice.stop - 1) : fpIn[i + 1]}

\* C16: for a table whose row 0 is a top point, the slices yielded are
\* contiguous and non-overlapping, each starts at a top-point row and holds
\* exactly that top point, and together they cover every row of the table,
\* the rows of the last cluster included
C16_SlicesCoverTable ==
    (pc = "slices_done" /\ Len(fpIn) >= 1 /\ fpIn[1]) =>
        LET slices == fpOut.slices
        IN /\ Len(slices) >= 1
           /\ slices[1].start = 0
           /\ \A i \in 1..(Len(slices) - 1) : slices[i].stop = slices[i + 1].start
           /\ \A i \in 1..Len(slices) :
                 /\ slices[i].start < slices[i].stop
                 /\ TopPointsIn(slices[i]) = {slices[i].start}
           /\ slices[Len(slices)].stop = Len(fpIn)

(***************************************************************************)
(* SpecRun: main on an input_dir with two archives                         *)
(***************************************************************************)

MaxRunRows == 2

RunRows(instrument) == {Row(d, 30, 0, 0, 1, instrument) : d \in NeighborDates}

RunRowSeqs(instrument) ==
    UNION {[1..n -> RunRows(instrument)] : n \in 0..MaxRunRows}

\* load_dataset zips ('MODIS', 'VIIRS') with the archives of input_dir
InitRun ==
    InitMain({c \in Settings :
                 /\ c.filter_type \in filter_types
                 /\ ~c.value_filter => c.filter_type = "equal"
                 /\ ~c.percentile_filter /\ c.cutoff_percentile = 90
                 /\ c.distance_cutoff = 1 /\ c.temporal_cutoff = 1},
             {<<m, v>> : m \in RunRowSeqs("MODIS"), v \in RunRowSeqs("VIIRS")},
             "main_start", <<>>)

SpecRun == InitRun /\ [][Next]_vars

\* the position in dataset.items() of the dataset analysis_loop was last
\* called on
LastAnalysed == IF pc = "main_done" THEN ds - 1 ELSE ds

HeaderLines(file) == {i \in 1..Len(file.lines) : file.lines[i].kind = "header"}

\* C17: during and after every call of analysis_loop, and at the end of the
\* run, the log file holds the blocks of the clusters of that call and
\* nothing else, all of them of the dataset last analysed, and the CSV file
\* starts with the one header that call wrote: whatever an earlier call
\* wrote to the same paths is gone
C17_FilesHoldLastDatasetOnly ==
    ((InAnalysis \/ pc = "main_done") /\ logfile # "unbound") =>
        /\ logfile = "file" =>
              /\ Len(fs.log.lines) = Len(clusters)
              /\ \A i \in 1..Len(clusters) :
                    /\ fs.log.lines[i] =
                          Block(clusters[i].top_point, clusters[i].close_points,
                                clusters[i].group_id)
                    /\ \E j \in 1..Len(cache.dataset[LastAnalysed]) :
                          cache.dataset[LastAnalysed][j].row
                              = clusters[i].top_point.data
        /\ logfile = "None" => fs.log.lines = <<>>
        /\ csvfile = "file" =>
              /\ HeaderLines(fs.csv) = {1}
              /\ \A i \in 2..Len(fs.csv.lines) :
                    \E j \in 1..Len(clusters) :
                       fs.csv.lines[i].fields[Len(fs.csv.lines[i].fields)]
                           = clusters[j].group_id
        /\ csvfile = "None" => fs.csv.lines = <<>>

\* the second call of analysis_loop opened both files a second time, after a
\* first call on a dataset with rows, and logged a cluster of VIIRS
C17_Witness ==
    /\ pc = "raised"
    /\ ds = 2
    /\ Len(raw[1]) >= 1
    /\ opens = [log |-> 2, csv |-> 2]
    /\ Len(fs.log.lines) = 1
    /\ fs.log.lines[1].top_point.data.instrument = "VIIRS"
    /\ HeaderLines(fs.csv) = {1}

(***************************************************************************)
(* Properties of the group ids (SpecGroups)                                *)
(***************************************************************************)

\* C18: within one call of analysis_loop the group ids of distinct clusters
\* are pairwise distinct and each is at least 1, whichever of the value and
\* percentile filters ran before
C18_GroupIdsDistinctPositive ==
    /\ \A i \in 1..Len(clusters) : clusters[i].group_id >= 1
    /\ \A i \in 1..Len(clusters) : \A j \in 1..Len(clusters) :
          i # j => clusters[i].group_id # clusters[j].group_id

\* two clusters of one call on a df both filters have cut down
C18_Witness ==
    /\ Len(clusters) = 2
    /\ settings.value_filter
    /\ settings.percentile_filter
    /\ Len(df) < Len(raw[ds])
    /\ clusters[1].top_point.data.frp = clusters[2].top_point.data.frp

(***************************************************************************)
(* SpecWarn: utils.ignore_pandas_warning around the functions of add_dates *)
(***************************************************************************)

MaxWarnRows == 2

\* values of pandas' options.mode.chained_assignment
ChainedModes == {"warn", "raise", "None"}

\* acq_date strings, split on '-': a well-formed date, a year that is no
\* number, a string without '-', a month that month_abbr does not have
WarnDates ==
    {<<NatStr(2016), <<"0", "1">>, <<"0", "1">>>>,
     <<<<"x">>, <<"0", "1">>, <<"0", "1">>>>,
     <<NatStr(2016)>>,
     <<NatStr(2016), <<"1", "3">>, <<"0", "1">>>>}

\* the lambda of add_year_values on one date: int(x.split('-')[0])
year_of(x) == LET r == PyInt(x[1]) IN IF IsExc(r) THEN r.exc ELSE "none"

\* the lambda of add_month_values: int(x.split('-')[1])
month_of(x) ==
    IF Len(x) < 2 THEN "IndexError"
    ELSE LET r == PyInt(x[2]) IN IF IsExc(r) THEN r.exc ELSE "none"

\* the lambda of add_month_names: month_abbr[int(x.split('-')[1])]
month_name_of(x) ==
    IF month_of(x) # "none" THEN month_of(x)
    ELSE IF PyInt(x[2]).val > 12 THEN "IndexError" ELSE "none"

\* what func number f of add_dates raises on the column, "none" if it
\* returns: the exception of the first date its lambda fails on
RECURSIVE Raised(_, _)
Raised(f, column) ==
    IF Len(column) = 0 THEN "none"
    ELSE LET e == CASE f = 1 -> year_of(Head(column))
                    [] f = 2 -> month_of(Head(column))
                    [] f = 3 -> month_name_of(Head(column))
         IN IF e # "none" THEN e ELSE Raised(f, Tail(column))

InitWarn ==
    /\ settings = <<>> /\ raw = <<>> /\ df = <<>> /\ top = <<>> /\ k = 0
    /\ cache = <<>> /\ ds = 0 /\ years = <<>>
    /\ gen = <<>> /\ handle = <<>> /\ opens = <<>> /\ fs = <<>>
    /\ logfile = "unbound" /\ csvfile = "unbound"
    /\ exc = "none" /\ clusters = <<>> /\ stdout = <<>>
    /\ fpIn \in [prior : ChainedModes,
                 column : UNION {[1..n -> WarnDates] : n \in 0..MaxWarnRows}]
    /\ chained_assignment = fpIn.prior
    /\ fpOut = [func |-> 1]
    /\ pc = "wrapper_call"

\* wrapper, line 23: options.mode.chained_assignment = None
WrapperDisable ==
    /\ pc = "wrapper_call"
    /\ chained_assignment' = "None"
    /\ pc' = "wrapper_func"
    /\ UNCHANGED <<settings, raw, cache, ds, years, df, top, k, gen, handle,
                   opens, logfile, csvfile, fs, exc, clusters, stdout,
                   fpIn, fpOut>>

\* variant: the flag is set back in a finally clause
WrapperFuncFinally ==
    /\ pc = "wrapper_func"
    /\ exc' = Raised(fpOut.func, fpIn.column)
    /\ pc' = IF exc' = "none" THEN "wrapper_return" ELSE "wrapper_raised"
    /\ chained_assignment' = IF exc' = "none" THEN chained_assignment ELSE "warn"
    /\ UNCHANGED <<settings, raw, cache, ds, years, df, top, k, gen, handle,
                   opens, logfile, csvfile, fs, clusters, stdout, fpIn, fpOut>>

\* wrapper, line 24: return_value = func(*args, **kwargs); an exception of
\* func leaves the wrapper here
WrapperFunc ==
    /\ pc = "wrapper_func"
    /\ exc' = Raised(fpOut.func, fpIn.column)
    /\ pc' = IF exc' = "none" THEN "wrapper_return" ELSE "wrapper_raised"
    /\ UNCHANGED <<settings, raw, cache, ds, years, chained_assignment, df, top,
                   k, gen, handle, opens, logfile, csvfile, fs, clusters, stdout,
                   fpIn, fpOut>>

\* wrapper, lines 25-26: options.mode.chained_assignment = 'warn', return;
\* add_dates goes on to its next func
WrapperEnable ==
    /\ pc = "wrapper_return"
    /\ chained_assignment' = "warn"
    /\ fpOut' = [func |-> fpOut.func + 1]
    /\ pc' = IF fpOut.func < 3 THEN "wrapper_call" ELSE "add_dates_done"
    /\ UNCHANGED <<settings, raw, cache, ds, years, df, top, k, gen, handle,
                   opens, logfile, csvfile, fs, exc, clusters, stdout, fpIn>>

NextWarn ==
    \/ WrapperDisable
    \/ WrapperFunc
    \/ WrapperEnable

SpecWarn == InitWarn /\ [][NextWarn]_vars

\* C20: once a decorated function has returned normally the flag is 'warn',
\* whatever it was before the call, and once a decorated function has
\* raised the flag is None and stays so
C20_FlagWarnAfterReturnNoneAfterRaise ==
    /\ (pc = "add_dates_done" \/ (pc = "wrapper_call" /\ fpOut.func > 1))
          => chained_assignment = "warn"
    /\ pc = "wrapper_raised" => chained_assignment = "None"

\* the flag was 'raise' before add_dates; its first function returned, its
\* second one raised
C20_Witness ==
    /\ pc = "wrapper_raised"
    /\ fpIn.prior = "raise"
    /\ fpOut.func = 2
    /\ chained_assignment = "None"

=============================================================================
